---- MODULE Spec2Model ----
(***************************************************************************)
(* Model of src/src/gcp.rs: the service-account token provider with its    *)
(* key-value cache (gcp_access_token_request), the query executor          *)
(* (handle_bq_query_req, gcp_bq_job_query) and the two request handlers    *)
(* (handle_insert_req, handle_get_req).                                    *)
(*                                                                         *)
(* Text is modelled as a sequence of fragments. A fragment is one           *)
(* character where the code inspects characters (dates), and a literal      *)
(* piece of a format string elsewhere; format!() is concatenation.          *)
(* The empty string "" is the empty sequence.                               *)
(***************************************************************************)
EXTENDS Integers, Sequences, FiniteSets, TLC

(***************************************************************************)
(* Bounds of the model.                                                    *)
(***************************************************************************)
NumProcs == 2        \* concurrent inbound requests
MaxTime == 2         \* the clock runs 0..MaxTime
MaxExpiresIn == 2    \* the identity provider reports expires_in in 1..MaxExpiresIn
MaxRequests == 2     \* inbound requests handled one after the other
TodaySpan == 7       \* number of consecutive days "today" ranges over
DateSpan == 11       \* number of consecutive well-formed dates offered as from/to

Procs == 1..NumProcs

None == [none |-> TRUE]
Some(x) == [none |-> FALSE, val |-> x]

EmptyStr == << >>

(***************************************************************************)
(* Calendar dates: chrono's NaiveDate::parse_from_str(s, "%Y-%m-%d"),      *)
(* signed_duration_since(..).num_days() and weekday().                     *)
(***************************************************************************)
Digits == <<"0", "1", "2", "3", "4", "5", "6", "7", "8", "9">>

IsDigit(c) == \E i \in 1..10 : Digits[i] = c

DigitVal(c) == (CHOOSE i \in 1..10 : Digits[i] = c) - 1

Drop(s, n) == SubSeq(s, n + 1, Len(s))

\* the characters str::trim_start skips (Unicode White_Space); a character
\* that cannot be written in a string here is named by its code point
WhiteSpace ==
    {" ", "\t", "\n", "\r", "\f", "U+000B", "U+0085", "U+00A0", "U+1680", "U+2000",
     "U+2001", "U+2002", "U+2003", "U+2004", "U+2005", "U+2006", "U+2007", "U+2008",
     "U+2009", "U+200A", "U+2028", "U+2029", "U+202F", "U+205F", "U+3000"}

RECURSIVE TrimStart(_)
TrimStart(s) ==
    IF s /= << >> /\ Head(s) \in WhiteSpace THEN TrimStart(Tail(s)) ELSE s

RECURSIVE LeadingDigits(_)
LeadingDigits(s) ==
    IF s /= << >> /\ IsDigit(Head(s)) THEN 1 + LeadingDigits(Tail(s)) ELSE 0

RECURSIVE NumVal(_)
NumVal(s) ==
    IF s = << >> THEN 0
    ELSE 10 * NumVal(SubSeq(s, 1, Len(s) - 1)) + DigitVal(s[Len(s)])

Min(a, b) == IF a < b THEN a ELSE b

RECURSIVE StripZeros(_)
StripZeros(ds) ==
    IF Len(ds) > 1 /\ Head(ds) = "0" THEN StripZeros(Tail(ds)) ELSE ds

\* a <= b for digit texts of the same length
RECURSIVE DigitsLeq(_, _)
DigitsLeq(a, b) ==
    IF a = << >> THEN TRUE
    ELSE IF DigitVal(Head(a)) /= DigitVal(Head(b)) THEN DigitVal(Head(a)) < DigitVal(Head(b))
    ELSE DigitsLeq(Tail(a), Tail(b))

\* the digits of the greatest year of a NaiveDate and of the magnitude of
\* the least one
MaxYearDigits == <<"2", "6", "2", "1", "4", "2">>

MinYearDigits == <<"2", "6", "2", "1", "4", "3">>

\* the years of a NaiveDate
Years == (0 - NumVal(MinYearDigits))..NumVal(MaxYearDigits)

\* the magnitude ds is the one of a year of the given sign: a number that is
\* no i64, no i32 or no year of a NaiveDate is out of range
YearFits(ds, negative) ==
    \/ Len(StripZeros(ds)) < Len(MaxYearDigits)
    \/ /\ Len(StripZeros(ds)) = Len(MaxYearDigits)
       /\ DigitsLeq(StripZeros(ds), IF negative THEN MinYearDigits ELSE MaxYearDigits)

\* the first n characters of s read as a number, n = 0 being a failure
TakeNumber(s, n) ==
    IF n = 0 THEN [ok |-> FALSE]
    ELSE [ok |-> TRUE, val |-> NumVal(SubSeq(s, 1, n)), rest |-> Drop(s, n)]

\* scan::number(s, 1, max): at least one and at most max leading digits.
ScanNumber(s, max) == TakeNumber(s, Min(LeadingDigits(s), max))

Negated(r) == IF r.ok THEN [r EXCEPT !.val = 0 - r.val] ELSE r

\* the n leading digits of s as the year after a sign
ScanYearDigits(s, n, negative) ==
    IF n = 0 \/ ~YearFits(SubSeq(s, 1, n), negative) THEN [ok |-> FALSE]
    ELSE IF negative THEN Negated(TakeNumber(s, n))
    ELSE TakeNumber(s, n)

\* a year with an explicit sign takes any number of digits, a year without
\* one at most four
ScanSignedYear(s) ==
    IF s /= << >> /\ Head(s) = "-"
    THEN ScanYearDigits(Tail(s), LeadingDigits(Tail(s)), TRUE)
    ELSE IF s /= << >> /\ Head(s) = "+"
    THEN ScanYearDigits(Tail(s), LeadingDigits(Tail(s)), FALSE)
    ELSE ScanNumber(s, 4)

\* a numeric item: leading white space is skipped
ScanYear(s0) == ScanSignedYear(TrimStart(s0))

ScanTwo(s0) == ScanNumber(TrimStart(s0), 2)

ScanDash(s) ==
    IF s /= << >> /\ Head(s) = "-" THEN [ok |-> TRUE, rest |-> Tail(s)]
    ELSE [ok |-> FALSE]

IsLeap(y) == (y % 4 = 0 /\ y % 100 /= 0) \/ y % 400 = 0

DaysInMonth(y, m) ==
    IF m = 2 THEN (IF IsLeap(y) THEN 29 ELSE 28)
    ELSE IF m \in {4, 6, 9, 11} THEN 30 ELSE 31

\* NaiveDate::from_ymd_opt: the year, the month and the day are in range
ValidYmd(y, m, d) == y \in Years /\ m \in 1..12 /\ d >= 1 /\ d <= DaysInMonth(y, m)

\* Day number of a civil date (days since 1970-01-01, proleptic Gregorian).
DayNumber(y0, m, d) ==
    LET y   == IF m <= 2 THEN y0 - 1 ELSE y0
        era == y \div 400
        yoe == y - era * 400
        mp  == (m + 9) % 12
        doy == (153 * mp + 2) \div 5 + d - 1
        doe == yoe * 365 + yoe \div 4 - yoe \div 100 + doy
    IN  era * 146097 + doe - 719468

\* the items of "%Y-%m-%d" in turn; each takes what the one before left
ParsedYmd(y, m, d) ==
    IF d.ok /\ d.rest = << >> /\ ValidYmd(y.val, m.val, d.val)
    THEN Some(DayNumber(y.val, m.val, d.val))
    ELSE None

ParseDay(y, m, dash) == IF dash.ok THEN ParsedYmd(y, m, ScanTwo(dash.rest)) ELSE None

ParseDash2(y, m) == IF m.ok THEN ParseDay(y, m, ScanDash(m.rest)) ELSE None

ParseMonth(y, dash) == IF dash.ok THEN ParseDash2(y, ScanTwo(dash.rest)) ELSE None

ParseDash1(y) == IF y.ok THEN ParseMonth(y, ScanDash(y.rest)) ELSE None

\* NaiveDate::parse_from_str(s, "%Y-%m-%d"): Some(day number) or None (Err).
ParseDate(s) == ParseDash1(ScanYear(s))

\* NaiveDate::signed_duration_since(a, b).num_days()
NumDaysSince(a, b) == a - b

\* weekday().num_days_from_sunday(); 1970-01-01 was a Thursday.
NumDaysFromSunday(day) == (day + 4) % 7

\* today.checked_sub_signed(Duration::days(today_weekday))
ThisSunday(today) == today - NumDaysFromSunday(today)


(***************************************************************************)
(* Range Filter: the match on (from_str, to_str) in handle_get_req.        *)
(* The result is the clause (kind "ok"), an Err returned by `?` (kind      *)
(* "err") or panic_with_status!(501, msg) (kind "panic"). The backquotes   *)
(* around from and to in the messages are written as parentheses.          *)
(***************************************************************************)
CurrentWeek == <<"week >= DATE_TRUNC(CURRENT_DATE(), week)">>

\* as OnlyToChecked, but a to on the Sunday itself is refused too
OnlyToCheckedStrict(y, to_date, today) ==
        IF to_date.none
        THEN [kind |-> "err", text |-> <<"ParseError">>]
        ELSE IF NumDaysSince(to_date.val, ThisSunday(today)) <= 0
        THEN [kind |-> "panic",
              text |-> <<"qurey string (to):">> \o y \o <<" is not valid">>]
        ELSE [kind |-> "ok",
              text |-> CurrentWeek \o <<" and week <= '">> \o y \o <<"'">>]

OnlyToChecked(y, to_date, today) ==
        IF to_date.none
        THEN [kind |-> "err", text |-> <<"ParseError">>]
        ELSE IF NumDaysSince(to_date.val, ThisSunday(today)) < 0
        THEN [kind |-> "panic",
              text |-> <<"qurey string (to):">> \o y \o <<" is not valid">>]
        ELSE [kind |-> "ok",
              text |-> CurrentWeek \o <<" and week <= '">> \o y \o <<"'">>]

OnlyToCondition(y, today) == OnlyToChecked(y, ParseDate(y), today)

BothChecked(x, y, from_date, to_date) ==
        IF from_date.none \/ to_date.none
        THEN [kind |-> "err", text |-> <<"ParseError">>]
        ELSE IF NumDaysSince(to_date.val, from_date.val) < 0
        THEN [kind |-> "panic",
              text |-> <<"qurey string (from): ">> \o x \o <<" or (to):">> \o y
                       \o <<" is not valid">>]
        ELSE [kind |-> "ok",
              text |-> <<"date >= '">> \o x \o <<"' and date <= '">> \o y \o <<"'">>]

BothCondition(x, y) == BothChecked(x, y, ParseDate(x), ParseDate(y))

OnlyFromCondition(x) == [kind |-> "ok", text |-> <<"week >= '">> \o x \o <<"'">>]

Condition(from_str, to_str, today) ==
    IF from_str.none /\ to_str.none THEN [kind |-> "ok", text |-> CurrentWeek]
    ELSE IF to_str.none THEN OnlyFromCondition(from_str.val)
    ELSE IF from_str.none THEN OnlyToCondition(to_str.val, today)
    ELSE BothCondition(from_str.val, to_str.val)

\* tomlfile.bigquery.projectid "." tomlfile.bigquery.dataset_tableid
Table == <<"project", ".", "dataset_table">>

SelectQuery(condition) == <<"SELECT * FROM ">> \o Table \o <<" where ">> \o condition

InsertQuery(payload) ==
    <<"INSERT INTO ">> \o Table
    \o <<" (refresh_date, dma_name, dma_id, term, week, score, rank, percent_gain) VALUES (">>
    \o payload \o <<")">>

(***************************************************************************)
(* Inputs offered to the select handler.                                   *)
(***************************************************************************)
Fmt2(n) == <<Digits[(n \div 10) + 1], Digits[(n % 10) + 1]>>

Fmt4(n) == Fmt2(n \div 100) \o Fmt2(n % 100)

FmtDate(y, m, d) == Fmt4(y) \o <<"-">> \o Fmt2(m) \o <<"-">> \o Fmt2(d)

GoodDates == {FmtDate(2024, 1, d) : d \in 5..(4 + DateSpan)}

\* accepted by the parser although not zero-padded, or with white space
\* before a number
LooseDates ==
    {<<"2", "0", "2", "4", "-", "1", "-", "9">>,
     <<"\t", "2", "0", "2", "4", "-", "\n", "0", "1", "-", "1", "0">>}

BadDates ==
    {EmptyStr, <<"a", "b", "c">>, FmtDate(2024, 2, 30), FmtDate(2024, 13, 1),
     FmtDate(2024, 1, 10) \o <<"x">>, <<"2", "0", "2", "4", "0", "1", "1", "0">>,
     <<"+", "2", "6", "2", "1", "4", "3", "-", "1", "2", "-", "3", "1">>}

DateInputs == GoodDates \cup LooseDates \cup BadDates

Opt(S) == {None} \cup {Some(x) : x \in S}

Todays == {DayNumber(2024, 1, 7) + k : k \in 0..(TodaySpan - 1)}


(***************************************************************************)
(* Credential cache: LocalStore, keyed by Hash::hash(scope_value).         *)
(* An entry keeps the value, the time of the insert and the TTL given to   *)
(* insert; validUntil is a history field: when the cached token's own      *)
(* validity (expires_in counted from its issue) ends.                      *)
(***************************************************************************)
\* tomlfile.bigquery.scope
ScopeValue == <<"scope">>

\* Hash::hash(scope_value.as_bytes()): a digest, one per scope string
Hash(s) == <<"sha256">> \o s

Keys == {Hash(ScopeValue)}

Expired(entry, t) == t >= entry.insertedAt + entry.ttl

\* LocalStore::lookup(key): Ok(None) for no entry or an expired one
KvLookup(c, key, t) ==
    IF c[key].none \/ Expired(c[key].val, t) THEN None ELSE Some(c[key].val.value)

\* LocalStore::insert(key, Body::from(value), Duration::from_secs(ttl))
\* as KvInsert, but the scope is stored in place of the token
KvInsertScope(c, key, value, ttl, t, validUntil) ==
    [c EXCEPT ![key] = Some([value |-> ScopeValue, insertedAt |-> t, ttl |-> ttl,
                             validUntil |-> validUntil])]

KvInsert(c, key, value, ttl, t, validUntil) ==
    [c EXCEPT ![key] = Some([value |-> value, insertedAt |-> t, ttl |-> ttl,
                             validUntil |-> validUntil])]

(***************************************************************************)
(* Responses of the handlers.                                              *)
(***************************************************************************)
Pending == [kind |-> "pending", status |-> 0, json |-> None, text |-> EmptyStr]

\* panic_with_status!(501, "{}", msg)
Panic501(msg) == [kind |-> "panic", status |-> 501, json |-> None, text |-> msg]

\* the handler returns Err(e); the status is chosen by its caller
ReturnedErr(msg) == [kind |-> "err", status |-> 0, json |-> None, text |-> msg]

\* Ok(Response::from_status(StatusCode::OK)), with a JSON body or with none
Ok200(json) == [kind |-> "ok", status |-> 200, json |-> json, text |-> EmptyStr]

\* a panic that sets no status (unwrap on an Err)
Aborted(msg) == [kind |-> "abort", status |-> 0, json |-> None, text |-> msg]

IsSuccess(status) == status \in 200..299

(***************************************************************************)
(* Token provider: gcp_access_token_request.                               *)
(***************************************************************************)
\* lines 53-69: the token the cache gives, "" when there is none.
\* opened: LocalStore::open() is Ok; lookup: [ok, val] as lookup returned.
LookupToken(opened, lookup) ==
    IF ~opened THEN EmptyStr
    ELSE IF ~lookup.ok THEN EmptyStr
    ELSE IF lookup.val.none THEN EmptyStr
    ELSE lookup.val.val

\* line 72: the exchange is made when the token is ""
NeedsExchange(token) == token = EmptyStr

\* as ExchangeOutcome, but the status of the answer is not looked at
ExchangeOutcomeAnyStatus(r) ==
    IF ~r.sendOk
    THEN Panic501(<<"Request to Google IDP Error: ">> \o r.text)
    ELSE IF r.json.none
    THEN ReturnedErr(<<"JsonError">>)
    ELSE IF r.json.val.access_token.none
    THEN Panic501(<<"Can NOT get gcp access token, logger: {}">>)
    ELSE IF r.json.val.expires_in.none
    THEN Panic501(<<"Can NOT get gcp access token expires_in">>)
    ELSE [kind |-> "ok", status |-> 0, json |-> None, text |-> EmptyStr]

\* lines 92-122: what the function does with the identity provider's answer r:
\* r.sendOk, r.status, r.text (the body), r.json (None when the body is not
\* JSON, else the Option values of access_token.as_str() and expires_in.as_u64()).
ExchangeOutcome(r) ==
    IF ~r.sendOk
    THEN Panic501(<<"Request to Google IDP Error: ">> \o r.text)
    ELSE IF ~IsSuccess(r.status)
    THEN Panic501(<<"Error Access Token!: ">> \o r.text)
    ELSE IF r.json.none
    THEN ReturnedErr(<<"JsonError">>)
    ELSE IF r.json.val.access_token.none
    THEN Panic501(<<"Can NOT get gcp access token, logger: {}">>)
    ELSE IF r.json.val.expires_in.none
    THEN Panic501(<<"Can NOT get gcp access token expires_in">>)
    ELSE [kind |-> "ok", status |-> 0, json |-> None, text |-> EmptyStr]

\* as AcquireAfterInsert, but a failed insert is returned to the caller
AcquireInsertChecked(token, inserted) ==
    IF inserted THEN [ok |-> TRUE, val |-> token]
    ELSE [ok |-> FALSE, err |-> <<"local kv insert error">>]

\* lines 123-135: the result of acquire once the exchange has succeeded, whatever
\* insert returned (inserted is FALSE when insert returned an error)
AcquireAfterInsert(token, inserted) == [ok |-> TRUE, val |-> token]

\* as InsertTtl, but the lifetime of the assertion taken for the TTL
InsertTtlOfAssertion(expire) == 3600

\* the TTL handed to insert: Duration::from_secs(expire)
InsertTtl(expire) == expire

\* the name of the k-th token the identity provider issues
Tok(k) == <<"t", Digits[k + 1]>>

IdpJsonBodies(k) ==
    {[access_token |-> a, expires_in |-> e] :
        a \in {None, Some(Tok(k)), Some(EmptyStr)},
        e \in {None} \cup {Some(n) : n \in 1..MaxExpiresIn}}

IdpResponses(k) ==
    {[sendOk |-> FALSE, status |-> 0, text |-> <<"SendError">>, json |-> None],
     [sendOk |-> TRUE, status |-> 403, text |-> <<"denied">>, json |-> None],
     [sendOk |-> TRUE, status |-> 500, text |-> <<"{..}">>,
      json |-> Some([access_token |-> Some(Tok(k)), expires_in |-> Some(1)])],
     [sendOk |-> TRUE, status |-> 200, text |-> <<"<html>">>, json |-> None]}
    \cup {[sendOk |-> TRUE, status |-> 200, text |-> <<"{..}">>, json |-> Some(j)] :
            j \in IdpJsonBodies(k)}


(***************************************************************************)
(* Query executor: gcp_bq_job_query and handle_bq_query_req.               *)
(* A Result is [ok |-> TRUE, val |-> v] or [ok |-> FALSE, err |-> message]. *)
(***************************************************************************)
Ok(v) == [ok |-> TRUE, val |-> v]
Err(e) == [ok |-> FALSE, err |-> e]

\* the Authorization header gcp_bq_job_query sets
\* as Bearer, but without the token
BearerBlank(access_token) == <<"Bearer ">>

Bearer(access_token) == <<"Bearer ">> \o access_token

\* gcp_bq_job_query on the warehouse's answer r: r.sendOk, r.status, r.text
\* (the body) and r.json (None when the body is not JSON, else its value)
BqJobQuery(r) ==
    IF ~r.sendOk THEN Err(r.text)
    ELSE IF ~IsSuccess(r.status) THEN Err(<<"BQ Query Request error: ">> \o r.text)
    ELSE Ok(r)

\* as DecodeBody, but the failure is reported as the request's
DecodeBodyAsRequestError(body) ==
    IF body.json.none
    THEN Err(<<"BQ Query Request Error: ">> \o <<"JsonError">>)
    ELSE Ok(body.json.val)

\* serde_json::from_str(&bqresp_str) in handle_bq_query_req
DecodeBody(body) ==
    IF body.json.none
    THEN Err(<<"BQ response format is NOT valid JSON: ">> \o <<"JsonError">>)
    ELSE Ok(body.json.val)

\* handle_bq_query_req after the token was acquired: jr is gcp_bq_job_query's result
HandleBqResult(jr) ==
    IF ~jr.ok THEN Err(<<"BQ Query Request Error: ">> \o jr.err)
    ELSE DecodeBody(jr.val)

\* handle_bq_query_req when gcp_access_token_request returned Err(e)
TokenRequestError(e) == Err(<<"Token Request Error: ">> \o e)

(***************************************************************************)
(* Response decoder: the loops of handle_get_req over rows and fields.     *)
(* A schema field is [name, type]; a row is the sequence of its cells'     *)
(* row["f"][i]["v"].as_str(): Some(text) or None. A decoded record is a    *)
(* JSON object: a function from its keys to integers or texts.             *)
(***************************************************************************)
\* the digits of i64::MAX; i64::MIN has a last digit one greater
I64MaxDigits == <<"9", "2", "2", "3", "3", "7", "2", "0", "3", "6", "8", "5", "4", "7",
                  "7", "5", "8", "0", "7">>

I64MinDigits == SubSeq(I64MaxDigits, 1, 18) \o <<"8">>

\* the magnitude ds fits an i64 of the given sign
FitsI64(ds, negative) ==
    LET z == StripZeros(ds)
    IN  \/ Len(z) < Len(I64MaxDigits)
        \/ /\ Len(z) = Len(I64MaxDigits)
           /\ DigitsLeq(z, IF negative THEN I64MinDigits ELSE I64MaxDigits)

\* str::parse::<i64>: an optional sign and at least one digit, nothing else,
\* and the value within the range of an i64
ParseI64(s) ==
    LET signed   == s /= << >> /\ Head(s) \in {"+", "-"}
        negative == signed /\ Head(s) = "-"
        ds       == IF signed THEN Tail(s) ELSE s
    IN  IF ds = << >> \/ LeadingDigits(ds) /= Len(ds) \/ ~FitsI64(ds, negative) THEN None
        ELSE IF negative THEN Some(0 - NumVal(ds))
        ELSE Some(NumVal(ds))

HexDigits == <<"0", "1", "2", "3", "4", "5", "6", "7", "8", "9",
               "a", "b", "c", "d", "e", "f">>

UpperHex == <<"0", "1", "2", "3", "4", "5", "6", "7", "8", "9",
              "A", "B", "C", "D", "E", "F">>

IsHex(c) == \E i \in 1..16 : HexDigits[i] = c \/ UpperHex[i] = c

HexVal(c) == (CHOOSE i \in 1..16 : HexDigits[i] = c \/ UpperHex[i] = c) - 1

\* n as w hex digits
RECURSIVE HexText(_, _)
HexText(n, w) == IF w = 0 THEN "" ELSE HexText(n \div 16, w - 1) \o UpperHex[(n % 16) + 1]

\* the name of the character with code point cp, for a character that is
\* not written as itself here
CodePoint(cp) ==
    "U+" \o HexText(cp, IF cp < 65536 THEN 4 ELSE IF cp < 1048576 THEN 5 ELSE 6)

\* the characters of the codes 32..126; the backquote (96) goes by its name
Printable ==
    <<" ", "!", "\"", "#", "$", "%", "&", "'", "(", ")", "*", "+", ",", "-", ".", "/",
      "0", "1", "2", "3", "4", "5", "6", "7", "8", "9", ":", ";", "<", "=", ">", "?",
      "@", "A", "B", "C", "D", "E", "F", "G", "H", "I", "J", "K", "L", "M", "N", "O",
      "P", "Q", "R", "S", "T", "U", "V", "W", "X", "Y", "Z", "[", "\\", "]", "^", "_",
      "U+0060", "a", "b", "c", "d", "e", "f", "g", "h", "i", "j", "k", "l", "m", "n",
      "o", "p", "q", "r", "s", "t", "u", "v", "w", "x", "y", "z", "{", "|", "}", "~">>

\* the character of a byte below 128
AsciiChar(code) ==
    IF code \in 32..126 THEN Printable[code - 31]
    ELSE IF code = 9 THEN "\t"
    ELSE IF code = 10 THEN "\n"
    ELSE IF code = 12 THEN "\f"
    ELSE IF code = 13 THEN "\r"
    ELSE CodePoint(code)

\* decoded text so far: character c before the decoded rest
UrlJoin(c, rest) == IF ~rest.ok THEN rest ELSE Ok(<<c>> \o rest.val)

\* what urlencoding::decode collects: the byte of a %XY, or a character of
\* the text that stays as it is (byte -1)
DecodedByte(n) == [byte |-> n, c |-> ""]

Literal(c) == [byte |-> 0 - 1, c |-> c]

\* %XY with two hex digits becomes the byte XY, any other character stays
RECURSIVE UrlBytes(_)
UrlBytes(s) ==
    IF s = << >> THEN << >>
    ELSE IF Head(s) = "%" /\ Len(s) >= 3 /\ IsHex(s[2]) /\ IsHex(s[3])
    THEN <<DecodedByte(16 * HexVal(s[2]) + HexVal(s[3]))>> \o UrlBytes(Drop(s, 3))
    ELSE <<Literal(Head(s))>> \o UrlBytes(Tail(s))

\* the item at position i is a decoded byte within lo..hi
Cont(items, i, lo, hi) == i <= Len(items) /\ items[i].byte \in lo..hi

\* the number of items that make up the first character of well-formed
\* UTF-8, 0 when they make up none
Utf8Width(items) ==
    IF items[1].byte < 128 THEN 1
    ELSE IF items[1].byte \in 194..223
    THEN (IF Cont(items, 2, 128, 191) THEN 2 ELSE 0)
    ELSE IF items[1].byte \in 224..239
    THEN (IF /\ Cont(items, 2, IF items[1].byte = 224 THEN 160 ELSE 128,
                               IF items[1].byte = 237 THEN 159 ELSE 191)
             /\ Cont(items, 3, 128, 191)
          THEN 3 ELSE 0)
    ELSE IF items[1].byte \in 240..244
    THEN (IF /\ Cont(items, 2, IF items[1].byte = 240 THEN 144 ELSE 128,
                               IF items[1].byte = 244 THEN 143 ELSE 191)
             /\ Cont(items, 3, 128, 191)
             /\ Cont(items, 4, 128, 191)
          THEN 4 ELSE 0)
    ELSE 0

\* the character the first n items make up
Utf8Char(items, n) ==
    IF n = 1 THEN (IF items[1].byte < 0 THEN items[1].c ELSE AsciiChar(items[1].byte))
    ELSE IF n = 2 THEN CodePoint((items[1].byte % 32) * 64 + (items[2].byte % 64))
    ELSE IF n = 3
    THEN CodePoint((items[1].byte % 16) * 4096 + (items[2].byte % 64) * 64
                   + (items[3].byte % 64))
    ELSE CodePoint((items[1].byte % 8) * 262144 + (items[2].byte % 64) * 4096
                   + (items[3].byte % 64) * 64 + (items[4].byte % 64))

\* String::from_utf8 on the collected bytes: Ok(text), or Err when they are
\* not UTF-8 as a whole
RECURSIVE FromUtf8(_)
FromUtf8Next(items, n) ==
    IF n = 0 THEN Err(<<"FromUtf8Error">>)
    ELSE UrlJoin(Utf8Char(items, n), FromUtf8(Drop(items, n)))

FromUtf8(items) ==
    IF items = << >> THEN Ok(<< >>) ELSE FromUtf8Next(items, Utf8Width(items))

\* urlencoding::decode: Ok(text) or Err
UrlDecode(s) == FromUtf8(UrlBytes(s))

\* row["f"][i]["v"].as_str()
Cell(row, i) == IF i <= Len(row) THEN row[i] ELSE None

UnwrapOr(opt, default) == IF opt.none THEN default ELSE opt.val

\* parse::<i64>().unwrap(): a failed parse panics
UnwrapParsed(n) == IF n.none THEN [kind |-> "abort"] ELSE [kind |-> "ok", val |-> n.val]

\* urlencoding::decode(..)?: a failed decode returns Err
TryDecoded(d) == IF d.ok THEN [kind |-> "ok", val |-> d.val] ELSE [kind |-> "err"]

\* as DecodeField, but every text field is percent-decoded
DecodeFieldAllDecoded(field, cell) ==
    IF field.type = <<"INTEGER">> THEN UnwrapParsed(ParseI64(UnwrapOr(cell, <<"0">>)))
    ELSE TryDecoded(UrlDecode(UnwrapOr(cell, EmptyStr)))

\* one pass of the inner loop: kind "ok" with the value written for the field,
\* "abort" for unwrap() on a failed parse, "err" for `?` on a failed decode
DecodeField(field, cell) ==
    IF field.type = <<"INTEGER">> THEN UnwrapParsed(ParseI64(UnwrapOr(cell, <<"0">>)))
    ELSE IF field.name = <<"update">> THEN TryDecoded(UrlDecode(UnwrapOr(cell, EmptyStr)))
    ELSE [kind |-> "ok", val |-> UnwrapOr(cell, EmptyStr)]

\* the least index of S (0: S is empty): loops stop at the first failure
First(S) == IF S = {} THEN 0 ELSE CHOOSE i \in S : \A j \in S : i <= j

\* the greatest index of S
Last(S) == CHOOSE i \in S : \A j \in S : j <= i

BadFields(fields, row) ==
    {i \in 1..Len(fields) : DecodeField(fields[i], Cell(row, i)).kind /= "ok"}

\* serde_json::from_str(&data_str): the object holds each key once, with the
\* value written last for it
RowObject(fields, row) ==
    [n \in {fields[i].name : i \in 1..Len(fields)} |->
        DecodeField(fields[Last({i \in 1..Len(fields) : fields[i].name = n})],
                    Cell(row, Last({i \in 1..Len(fields) : fields[i].name = n}))).val]

\* b: the first field whose decoding fails; with no field data_str is "}"
\* and does not parse
DecodeRowFrom(fields, row, b) ==
    IF b /= 0 THEN [kind |-> DecodeField(fields[b], Cell(row, b)).kind]
    ELSE IF Len(fields) = 0 THEN [kind |-> "err"]
    ELSE [kind |-> "ok", val |-> RowObject(fields, row)]

DecodeRow(fields, row) == DecodeRowFrom(fields, row, First(BadFields(fields, row)))

BadRows(fields, rows) == {i \in 1..Len(rows) : DecodeRow(fields, rows[i]).kind /= "ok"}

\* the outer loop: the first row that fails ends the request
DecodeRowsFrom(fields, rows, b) ==
    IF b /= 0 THEN [kind |-> DecodeRow(fields, rows[b]).kind]
    ELSE [kind |-> "ok", val |-> [i \in 1..Len(rows) |-> DecodeRow(fields, rows[i]).val]]

DecodeRows(fields, rows) == DecodeRowsFrom(fields, rows, First(BadRows(fields, rows)))

\* the response for the decoded rows d
Decoded(d) ==
    IF d.kind = "ok" THEN Ok200(Some(d.val))
    ELSE IF d.kind = "err" THEN ReturnedErr(<<"DecodeError">>)
    ELSE Aborted(<<"ParseIntError">>)

\* as GetFinish, but the rows are looked at before the schema
GetFinishRowsFirst(bq, query) ==
    IF ~bq.ok THEN Panic501(bq.err \o <<", query: ">> \o query)
    ELSE IF bq.val.rows.none THEN Ok200(Some(<< >>))
    ELSE IF bq.val.fields.none
    THEN Panic501(<<"BQ response format doesn't include schema.fields, query: ">> \o query)
    ELSE Decoded(DecodeRows(bq.val.fields.val, bq.val.rows.val))

\* handle_get_req from the result bq of handle_bq_query_req to its response
GetFinish(bq, query) ==
    IF ~bq.ok THEN Panic501(bq.err \o <<", query: ">> \o query)
    ELSE IF bq.val.fields.none
    THEN Panic501(<<"BQ response format doesn't include schema.fields, query: ">> \o query)
    ELSE IF bq.val.rows.none THEN Ok200(Some(<< >>))
    ELSE Decoded(DecodeRows(bq.val.fields.val, bq.val.rows.val))

\* handle_insert_req from the result bq of handle_bq_query_req to its response
InsertFinish(bq, query) ==
    IF ~bq.ok
    THEN Panic501(<<"BQ Insert Error: ">> \o bq.err \o <<", query: ">> \o query)
    ELSE Ok200(None)

Finish(kind, bq, query) ==
    IF kind = "insert" THEN InsertFinish(bq, query) ELSE GetFinish(bq, query)

(***************************************************************************)
(* Answers offered by the warehouse.                                       *)
(***************************************************************************)
IntField == [name |-> <<"score">>, type |-> <<"INTEGER">>]
TextField == [name |-> <<"term">>, type |-> <<"STRING">>]

BqJsonValues ==
    {[fields |-> None, rows |-> None],
     [fields |-> Some(<<IntField, TextField>>), rows |-> None],
     [fields |-> Some(<<IntField, TextField>>),
      rows |-> Some(<< <<Some(<<"4", "2">>), Some(<<"a", "%", "2", "0", "b">>)>> >>)]}

BqResponses ==
    {[sendOk |-> FALSE, status |-> 0, text |-> <<"SendError">>, json |-> None],
     [sendOk |-> TRUE, status |-> 400, text |-> <<"bad request">>, json |-> None],
     [sendOk |-> TRUE, status |-> 404, text |-> <<"{error}">>,
      json |-> Some([fields |-> None, rows |-> None])],
     [sendOk |-> TRUE, status |-> 200, text |-> <<"<html>">>, json |-> None]}
    \cup {[sendOk |-> TRUE, status |-> 200, text |-> <<"{..}">>, json |-> Some(j)] :
            j \in BqJsonValues}


(***************************************************************************)
(* State.                                                                  *)
(*   now           the clock                                               *)
(*   cache         the key-value store: key -> None or Some(entry)         *)
(*   issued        the tokens the identity provider has issued, in order   *)
(*   pc            where each inbound request stands                       *)
(*   req           the inbound request                                     *)
(*   query         the SQL text built for it                               *)
(*   store_ok      local_store_result.is_ok()                              *)
(*   access_token  the local access_token of gcp_access_token_request      *)
(*   expire        the local expire                                        *)
(*   sent          the outbound requests made for the inbound request      *)
(*   resp          the response given to the inbound request               *)
(*   hist          what happened on the way (history, read by no action)   *)
(*   started       the number of inbound requests received so far          *)
(***************************************************************************)
VARIABLES now, cache, issued, pc, req, query, store_ok, access_token, expire,
          sent, resp, hist, started

vars == <<now, cache, issued, pc, req, query, store_ok, access_token, expire,
          sent, resp, hist, started>>

NoReq == [kind |-> "none", qsOk |-> TRUE, from |-> None, to |-> None, today |-> 0]

\* how gcp_access_token_request ended: "none" (not yet), "ok" with the token,
\* "err" with the error returned, "panic" with the message of the panic
Acquire(end, val) == [end |-> end, val |-> val]

\* lookup     how the lookup went: none, open_err, lookup_err, miss, hit
\* found      what LocalStore::lookup returned on a hit
\* tokenFrom  where the token in access_token came from: none, cache, idp
\* askedAt    when the exchange request left
\* gotAt      when the lookup was made or the exchange was answered
\* validUntil when the validity of that token ends
\* idp        none, sign_err (no request was sent), sent
\* idpResp    the identity provider's answer
\* insert     none, no_store, ok, err
\* before, after  the cache entry before and after the insert step
\* acq        how gcp_access_token_request ended
\* bqResp     the warehouse's answer
\* bq         the result of handle_bq_query_req
HistInit ==
    [lookup |-> "none", found |-> None, tokenFrom |-> "none", askedAt |-> 0, gotAt |-> 0,
     validUntil |-> 0, idp |-> "none", idpResp |-> None, insert |-> "none",
     before |-> None, after |-> None, acq |-> Acquire("none", EmptyStr),
     bqResp |-> None, bq |-> None]

Init ==
    /\ now = 0
    /\ cache = [k \in Keys |-> None]
    /\ issued = << >>
    /\ pc = [p \in Procs |-> "idle"]
    /\ req = [p \in Procs |-> NoReq]
    /\ query = [p \in Procs |-> EmptyStr]
    /\ store_ok = [p \in Procs |-> FALSE]
    /\ access_token = [p \in Procs |-> EmptyStr]
    /\ expire = [p \in Procs |-> 0]
    /\ sent = [p \in Procs |-> << >>]
    /\ resp = [p \in Procs |-> Pending]
    /\ hist = [p \in Procs |-> HistInit]
    /\ started = 0

\* the request ends with response r
End(p, r) ==
    /\ resp' = [resp EXCEPT ![p] = r]
    /\ pc' = [pc EXCEPT ![p] = "done"]

\* An inbound request arrives at p. Every request is handled by a fresh
\* invocation: nothing but the cache outlives the one before (again: p takes
\* a further request once it has answered one).
Arrives(p, again) ==
    /\ \/ pc[p] = "idle"
       \/ again /\ pc[p] = "done" /\ started < MaxRequests
    /\ started' = started + 1
    /\ store_ok' = [store_ok EXCEPT ![p] = FALSE]
    /\ access_token' = [access_token EXCEPT ![p] = EmptyStr]
    /\ expire' = [expire EXCEPT ![p] = 0]
    /\ sent' = [sent EXCEPT ![p] = << >>]
    /\ hist' = [hist EXCEPT ![p] = HistInit]

\* the handler goes on to handle_bq_query_req with the query q
Proceed(p, q) ==
    /\ query' = [query EXCEPT ![p] = q]
    /\ pc' = [pc EXCEPT ![p] = "lookup"]
    /\ resp' = [resp EXCEPT ![p] = Pending]

\* the handler ends before any query with response r
Refuse(p, r) ==
    /\ query' = [query EXCEPT ![p] = EmptyStr]
    /\ End(p, r)

Payload == <<"'2024-01-07', 'dma', 1, 'term', '2024-01-07', 1, 1, 1">>

\* handle_insert_req up to the call of handle_bq_query_req
HandleInsertReq(p, again) ==
    /\ Arrives(p, again)
    /\ \E bodyOk \in BOOLEAN :
         /\ req' = [req EXCEPT ![p] = [NoReq EXCEPT !.kind = "insert", !.qsOk = bodyOk]]
         /\ IF bodyOk THEN Proceed(p, InsertQuery(Payload))
            ELSE Refuse(p, ReturnedErr(<<"JsonError">>))
    /\ UNCHANGED <<now, cache, issued>>

\* the response of handle_get_req when the condition c is no clause
NoClause(c) == IF c.kind = "err" THEN ReturnedErr(c.text) ELSE Panic501(c.text)

\* handle_get_req up to the call of handle_bq_query_req
HandleGetReq(p, again, Froms, Tos, Days) ==
    /\ Arrives(p, again)
    /\ \E qsOk \in BOOLEAN, from \in Froms, to \in Tos, today \in Days :
         /\ qsOk \/ (from.none /\ to.none)
         /\ req' = [req EXCEPT ![p] = [kind |-> "select", qsOk |-> qsOk,
                                       from |-> from, to |-> to, today |-> today]]
         /\ IF ~qsOk
            THEN Refuse(p, Panic501(<<"Get request, querystring Error: ">> \o <<"QsError">>))
            ELSE IF Condition(from, to, today).kind = "ok"
            THEN Proceed(p, SelectQuery(Condition(from, to, today).text))
            ELSE Refuse(p, NoClause(Condition(from, to, today)))
    /\ UNCHANGED <<now, cache, issued>>

\* gcp_access_token_request, lines 44-72: open the store and look the token up
CacheLookup(p) ==
    /\ pc[p] = "lookup"
    /\ \E opened \in BOOLEAN, lookupOk \in BOOLEAN :
         LET key    == Hash(ScopeValue)
             lookup == IF lookupOk THEN Ok(KvLookup(cache, key, now))
                       ELSE Err(<<"LookupError">>)
             token  == LookupToken(opened, lookup)
             hit    == opened /\ lookupOk /\ ~lookup.val.none
             how    == IF ~opened THEN "open_err"
                       ELSE IF ~lookupOk THEN "lookup_err"
                       ELSE IF hit THEN "hit" ELSE "miss"
         IN  /\ opened \/ lookupOk
             /\ store_ok' = [store_ok EXCEPT ![p] = opened]
             /\ access_token' = [access_token EXCEPT ![p] = token]
             /\ hist' = [hist EXCEPT
                    ![p].lookup = how,
                    ![p].found = IF hit THEN lookup.val ELSE None,
                    ![p].tokenFrom = IF NeedsExchange(token) THEN "none" ELSE "cache",
                    ![p].gotAt = now,
                    ![p].validUntil = IF hit THEN cache[key].val.validUntil ELSE 0,
                    ![p].acq = IF NeedsExchange(token) THEN Acquire("none", EmptyStr)
                               ELSE Acquire("ok", token)]
             /\ pc' = [pc EXCEPT ![p] = IF NeedsExchange(token) THEN "exchange" ELSE "bq"]
    /\ UNCHANGED <<now, cache, issued, req, query, expire, sent, resp, started>>

\* as Send, but the request is sent a second time
SendAgain(log, request) == Append(Append(log, request), request)

\* .send(backend): the request goes out once
Send(log, request) == Append(log, request)

IdpRequest == [to |-> "idp", auth |-> EmptyStr, body |-> <<"grant_type", "assertion">>]

\* gcp_access_token_request, lines 73-94: sign the assertion and send the
\* exchange request; send then waits for the identity provider
ExchangeSend(p) ==
    /\ pc[p] = "exchange"
    /\ \E signOk \in BOOLEAN :
         IF ~signOk
         THEN /\ End(p, Finish(req[p].kind, TokenRequestError(<<"KeyError">>), query[p]))
              /\ hist' = [hist EXCEPT ![p].idp = "sign_err",
                                      ![p].acq = Acquire("err", <<"KeyError">>)]
              /\ UNCHANGED sent
         ELSE /\ sent' = [sent EXCEPT ![p] = Send(@, IdpRequest)]
              /\ hist' = [hist EXCEPT ![p].idp = "sent", ![p].askedAt = now]
              /\ pc' = [pc EXCEPT ![p] = "idp_wait"]
              /\ UNCHANGED resp
    /\ UNCHANGED <<now, cache, issued, req, query, store_ok, access_token, expire, started>>

\* gcp_access_token_request, lines 94-122: send returns with the identity
\* provider's answer, which is read. The provider made the answer, and issued
\* the token in it, at some time since the request left.
ExchangeAnswer(p, Offers) ==
    /\ pc[p] = "idp_wait"
    /\ \E r \in Offers :
         LET o == ExchangeOutcome(r)
         IN  IF o.kind = "ok"
             THEN LET token == r.json.val.access_token.val
                      secs  == r.json.val.expires_in.val
                  IN  \E issuedAt \in hist[p].askedAt..now :
                        /\ access_token' = [access_token EXCEPT ![p] = token]
                        /\ expire' = [expire EXCEPT ![p] = secs]
                        /\ issued' = Append(issued, token)
                        /\ hist' = [hist EXCEPT ![p].idpResp = Some(r),
                                                ![p].tokenFrom = "idp",
                                                ![p].gotAt = now,
                                                ![p].validUntil = issuedAt + secs]
                        /\ pc' = [pc EXCEPT ![p] = "insert"]
                        /\ UNCHANGED resp
             ELSE /\ End(p, IF o.kind = "panic" THEN o
                            ELSE Finish(req[p].kind, TokenRequestError(o.text),
                                        query[p]))
                  /\ hist' = [hist EXCEPT
                         ![p].idpResp = Some(r),
                         ![p].acq = Acquire(o.kind, o.text)]
                  /\ UNCHANGED <<issued, access_token, expire>>
    /\ UNCHANGED <<now, cache, req, query, store_ok, sent, started>>

\* gcp_access_token_request, lines 123-135: store the token and return it
CacheInsert(p) ==
    /\ pc[p] = "insert"
    /\ \E insertOk \in BOOLEAN :
         LET key      == Hash(ScopeValue)
             inserted == store_ok[p] /\ insertOk
             acq      == AcquireAfterInsert(access_token[p], inserted)
         IN  /\ store_ok[p] \/ insertOk
             /\ cache' = IF inserted
                         THEN KvInsert(cache, key, access_token[p], InsertTtl(expire[p]),
                                       now, hist[p].validUntil)
                         ELSE cache
             /\ hist' = [hist EXCEPT
                    ![p].insert = IF ~store_ok[p] THEN "no_store"
                                  ELSE IF insertOk THEN "ok" ELSE "err",
                    ![p].before = cache[key],
                    ![p].after = cache'[key],
                    ![p].acq = IF acq.ok THEN Acquire("ok", acq.val)
                               ELSE Acquire("err", acq.err)]
             /\ IF acq.ok
                THEN /\ pc' = [pc EXCEPT ![p] = "bq"]
                     /\ UNCHANGED resp
                ELSE End(p, Finish(req[p].kind, TokenRequestError(acq.err), query[p]))
    /\ UNCHANGED <<now, issued, req, query, store_ok, access_token, expire, sent, started>>

\* handle_bq_query_req from line 298 and gcp_bq_job_query up to line 30:
\* post the job; send then waits for the warehouse
BqPost(p) ==
    /\ pc[p] = "bq"
    /\ sent' = [sent EXCEPT ![p] = Send(@, [to |-> "bigquery",
                                            auth |-> Bearer(access_token[p]),
                                            body |-> query[p]])]
    /\ pc' = [pc EXCEPT ![p] = "bq_wait"]
    /\ UNCHANGED <<now, cache, issued, req, query, store_ok, access_token, expire,
                   resp, hist, started>>

\* gcp_bq_job_query from line 30, handle_bq_query_req from line 305 and the
\* rest of the handler: send returns with the warehouse's answer, which is
\* checked and decoded, and the response is given
BqAnswer(p, Answers) ==
    /\ pc[p] = "bq_wait"
    /\ \E r \in Answers :
         LET bq == HandleBqResult(BqJobQuery(r))
         IN  /\ End(p, Finish(req[p].kind, bq, query[p]))
             /\ hist' = [hist EXCEPT ![p].bqResp = Some(r), ![p].bq = Some(bq)]
    /\ UNCHANGED <<now, cache, issued, req, query, store_ok, access_token, expire,
                   sent, started>>

\* time passes
Tick ==
    /\ now < MaxTime
    /\ now' = now + 1
    /\ UNCHANGED <<cache, issued, pc, req, query, store_ok, access_token, expire,
                   sent, resp, hist, started>>

(***************************************************************************)
(* Spec: inbound requests of both kinds, handled one after the other by    *)
(* fresh invocations that share the cache, while time passes.              *)
(***************************************************************************)
Request(p) ==
    \/ HandleInsertReq(p, TRUE)
    \/ HandleGetReq(p, TRUE, {None}, {None, Some(<<"a", "b", "c">>)},
                    {DayNumber(2024, 1, 7)})
    \/ CacheLookup(p)
    \/ ExchangeSend(p)
    \/ ExchangeAnswer(p, IdpResponses(Len(issued) + 1))
    \/ CacheInsert(p)
    \/ BqPost(p)
    \/ BqAnswer(p, BqResponses)

Next == Tick \/ Request(1)

Spec == Init /\ [][Next]_vars

(***************************************************************************)
(* SpecRace: concurrent inbound requests, one per invocation, racing on    *)
(* the cache; the offers are the ones the race depends on.                 *)
(***************************************************************************)
RaceIdpResponses(k) ==
    {r \in IdpResponses(k) :
        r.sendOk /\ (r.json.none => r.status = 403)
                 /\ (~r.json.none => /\ r.status = 200
                                     /\ r.json.val.access_token = Some(Tok(k))
                                     /\ ~r.json.val.expires_in.none)}

RaceBqResponses ==
    {r \in BqResponses :
        r.sendOk /\ (r.json.none => r.status = 400)
                 /\ (~r.json.none => /\ r.status = 200
                                     /\ ~r.json.val.fields.none
                                     /\ r.json.val.rows.none)}

RaceRequest(p) ==
    \/ HandleGetReq(p, FALSE, {None}, {None}, {DayNumber(2024, 1, 7)})
    \/ CacheLookup(p)
    \/ ExchangeSend(p)
    \/ ExchangeAnswer(p, RaceIdpResponses(Len(issued) + 1))
    \/ CacheInsert(p)
    \/ BqPost(p)
    \/ BqAnswer(p, RaceBqResponses)

NextRace == Tick \/ \E p \in Procs : RaceRequest(p)

SpecRace == Init /\ [][NextRace]_vars

(***************************************************************************)
(* SpecSelect: one select request over the whole offer of dates and days.  *)
(***************************************************************************)
SelectRequest(p) ==
    \/ HandleGetReq(p, FALSE, Opt(DateInputs), Opt(DateInputs), Todays)
    \/ CacheLookup(p)
    \/ ExchangeSend(p)
    \/ ExchangeAnswer(p, IdpResponses(Len(issued) + 1))
    \/ CacheInsert(p)
    \/ BqPost(p)
    \/ BqAnswer(p, BqResponses)

NextSelect == SelectRequest(1)

SpecSelect == Init /\ [][NextSelect]_vars


(***************************************************************************)
(* SpecDecode: the decoder of handle_get_req on every offered answer of    *)
(* the warehouse. The select request has no bounds and holds its token;    *)
(* the answer is a success whose body is JSON.                             *)
(***************************************************************************)
MaxFields == 2
MaxCells == 2
MaxRows == 2

\* the sequences over S of length at most n
SeqsUpTo(S, n) == UNION {[1..k -> S] : k \in 0..n}

UpdateField == [name |-> <<"update">>, type |-> <<"STRING">>]

FieldDefs == {IntField, TextField, UpdateField}

\* the texts of the cells; a cell is absent where the row is shorter than the schema
PercentText == <<"%", "C", "3", "%", "A", "9", "%", "2", "0", "b">>

CellValues == {Some(<<"4", "2">>), Some(PercentText)}

\* the offered schema.fields and rows: absent, or a sequence
SchemaOffers == Opt(SeqsUpTo(FieldDefs, MaxFields))

RowsOffers == Opt(SeqsUpTo(SeqsUpTo(CellValues, MaxCells), MaxRows))

\* the warehouse's answer with the schema.fields f and the rows r
DecodeBqResponse(f, r) ==
    [sendOk |-> TRUE, status |-> 200, text |-> <<"{..}">>,
     json |-> Some([fields |-> f, rows |-> r])]

\* handle_get_req has built the query without bounds and
\* gcp_access_token_request has returned a token exchanged at time 0 (the
\* store could not be opened); the job is about to be posted
InitDecode ==
    /\ now = 0
    /\ cache = [k \in Keys |-> None]
    /\ issued = <<Tok(1)>>
    /\ pc = [p \in Procs |-> IF p = 1 THEN "bq" ELSE "idle"]
    /\ req = [p \in Procs |->
                IF p = 1 THEN [NoReq EXCEPT !.kind = "select",
                                            !.today = DayNumber(2024, 1, 7)]
                ELSE NoReq]
    /\ query = [p \in Procs |-> IF p = 1 THEN SelectQuery(CurrentWeek) ELSE EmptyStr]
    /\ store_ok = [p \in Procs |-> FALSE]
    /\ access_token = [p \in Procs |-> IF p = 1 THEN Tok(1) ELSE EmptyStr]
    /\ expire = [p \in Procs |-> IF p = 1 THEN 1 ELSE 0]
    /\ sent = [p \in Procs |-> IF p = 1 THEN Send(<< >>, IdpRequest) ELSE << >>]
    /\ resp = [p \in Procs |-> Pending]
    /\ hist = [p \in Procs |->
                IF p = 1
                THEN [HistInit EXCEPT
                        !.lookup = "open_err", !.tokenFrom = "idp", !.validUntil = 1,
                        !.idp = "sent",
                        !.idpResp = Some([sendOk |-> TRUE, status |-> 200,
                                          text |-> <<"{..}">>,
                                          json |-> Some([access_token |-> Some(Tok(1)),
                                                         expires_in |-> Some(1)])]),
                        !.insert = "no_store", !.acq = Acquire("ok", Tok(1))]
                ELSE HistInit]
    /\ started = 1

NextDecode ==
    \/ BqPost(1)
    \/ /\ pc[1] = "bq_wait"
       /\ \E f \in SchemaOffers, r \in RowsOffers : BqAnswer(1, {DecodeBqResponse(f, r)})

SpecDecode == InitDecode /\ [][NextDecode]_vars


(***************************************************************************)
(* Properties.                                                             *)
(***************************************************************************)
\* the number of requests in log sent to dest
Count(log, dest) == Cardinality({i \in 1..Len(log) : log[i].to = dest})

Key == Hash(ScopeValue)

\* the identity provider's answer r is no successful exchange
IdpRefuses(r) ==
    \/ ~r.sendOk
    \/ ~IsSuccess(r.status)
    \/ r.json.none
    \/ r.json.val.access_token.none
    \/ r.json.val.expires_in.none

\* C1 (as claimed): whenever the cache lookup returns a non-expired cached
\* token, whatever its value, gcp_access_token_request returns that token and
\* sends nothing to the identity provider.
C1_CacheShortCircuit ==
    \A p \in Procs :
        hist[p].lookup = "hit" =>
            /\ hist[p].acq = Acquire("ok", hist[p].found.val)
            /\ Count(sent[p], "idp") = 0

\* C2 (as claimed): when the lookup finds no token, acquire makes exactly one
\* exchange call, and once the exchange has succeeded the cache holds the
\* returned access_token with a TTL equal to expires_in.
C2_MissExchangeAsClaimed ==
    \A p \in Procs :
        hist[p].lookup = "miss" =>
            /\ pc[p] \in {"insert", "bq", "bq_wait", "done"} => Count(sent[p], "idp") = 1
            /\ (hist[p].tokenFrom = "idp" /\ hist[p].insert /= "none") =>
                  /\ ~hist[p].after.none
                  /\ hist[p].after.val.value = hist[p].idpResp.val.json.val.access_token.val
                  /\ hist[p].after.val.ttl = hist[p].idpResp.val.json.val.expires_in.val

\* C2 (amended): when the lookup finds no token, acquire makes at most one
\* exchange call, and exactly one unless the assertion could not be signed;
\* when the exchange succeeds, the store is open and the insert succeeds, the
\* cache holds right after the insert the returned access_token under the
\* scope's key with a TTL equal to expires_in, inserted at that time.
C2_MissExchange ==
    \A p \in Procs :
        hist[p].lookup = "miss" =>
            /\ Count(sent[p], "idp") <= 1
            /\ (pc[p] \in {"insert", "bq", "bq_wait", "done"} /\ hist[p].idp /= "sign_err")
                  => Count(sent[p], "idp") = 1
            /\ hist[p].idp = "sign_err" => Count(sent[p], "idp") = 0
            /\ hist[p].insert = "ok" =>
                  /\ ~hist[p].after.none
                  /\ hist[p].after.val.value = hist[p].idpResp.val.json.val.access_token.val
                  /\ hist[p].after.val.ttl = hist[p].idpResp.val.json.val.expires_in.val
                  /\ ~Expired(hist[p].after.val, hist[p].after.val.insertedAt)
                  /\ Expired(hist[p].after.val,
                             hist[p].after.val.insertedAt
                               + hist[p].idpResp.val.json.val.expires_in.val)

C2_Witness ==
    \E p \in Procs :
        /\ hist[p].lookup = "miss"
        /\ hist[p].insert = "ok"
        /\ hist[p].after.val.insertedAt > hist[p].gotAt
        /\ pc[p] = "bq"

\* C3 (as claimed): gcp_access_token_request never returns a cached token whose
\* validity, expires_in counted from its issue, has already ended.
C3_NeverServedPastExpiry ==
    \A p \in Procs :
        hist[p].tokenFrom = "cache" => hist[p].gotAt < hist[p].validUntil

\* C4: no failure of the cache makes acquire fail. A store that cannot be
\* opened or a lookup that fails is taken as a miss and leads to the exchange,
\* a failed insert leaves the cache as it was, and once the exchange has
\* succeeded acquire returns the exchanged token whatever the insert did.
C4_CacheAdvisory ==
    \A p \in Procs :
        /\ hist[p].lookup \in {"open_err", "lookup_err"} =>
              /\ hist[p].tokenFrom /= "cache"
              /\ pc[p] = "exchange" \/ hist[p].idp /= "none"
        /\ hist[p].insert \in {"err", "no_store"} => hist[p].after = hist[p].before
        /\ (hist[p].tokenFrom = "idp" /\ hist[p].insert /= "none") =>
              /\ hist[p].acq =
                    Acquire("ok", hist[p].idpResp.val.json.val.access_token.val)
              /\ access_token[p] = hist[p].idpResp.val.json.val.access_token.val
        /\ hist[p].acq.end \in {"err", "panic"} =>
              \/ hist[p].idp = "sign_err"
              \/ ~hist[p].idpResp.none /\ IdpRefuses(hist[p].idpResp.val)

C4_Witness ==
    \E p \in Procs :
        /\ hist[p].lookup = "lookup_err"
        /\ hist[p].insert = "err"
        /\ hist[p].acq.end = "ok"
        /\ pc[p] = "done"
        /\ resp[p].kind = "ok"

\* C5: when the identity provider answers with a non-success status, or with
\* a success body that lacks access_token or expires_in, acquire returns no
\* token, the exchange is not made again, nothing is sent to the warehouse and
\* the request ends with status 501.
C5_ExchangeFailureFatal ==
    \A p \in Procs :
        (~hist[p].idpResp.none /\ hist[p].idpResp.val.sendOk
            /\ IdpRefuses(hist[p].idpResp.val)) =>
            /\ pc[p] = "done"
            /\ hist[p].acq.end \in {"err", "panic"}
            /\ resp[p].kind = "panic" /\ resp[p].status = 501
            /\ resp[p].json = None
            /\ Count(sent[p], "idp") = 1
            /\ Count(sent[p], "bigquery") = 0
            /\ hist[p].insert = "none"

C5_Witness ==
    \E p \in Procs :
        /\ ~hist[p].idpResp.none
        /\ IsSuccess(hist[p].idpResp.val.status)
        /\ ~hist[p].idpResp.val.json.none
        /\ ~hist[p].idpResp.val.json.val.access_token.none
        /\ hist[p].idpResp.val.json.val.expires_in.none
        /\ pc[p] = "done"


\* the tokens the identity provider has issued
IssuedTokens == {issued[i] : i \in 1..Len(issued)}

\* C6 (as claimed): in a race on the cold cache each call that misses makes
\* its own exchange and writes its own result, the cache holds what the last
\* writer wrote, and every token a call returns was issued by the identity
\* provider and, when the call has it from the cache, is unexpired at the
\* lookup (a token in the provider's answer is as old as the answer's way).
C6_RaceOnlyDuplicates ==
    \A p \in Procs :
        /\ hist[p].insert = "ok" =>
              /\ hist[p].after.val.value = access_token[p]
              /\ Count(sent[p], "idp") = 1
        /\ hist[p].acq.end = "ok" =>
              /\ hist[p].acq.val \in IssuedTokens
              /\ hist[p].tokenFrom = "cache" => hist[p].gotAt < hist[p].validUntil

\* the warehouse's or the identity provider's answer r is a failure of the call
CallFailed(r) == ~r.sendOk \/ ~IsSuccess(r.status)

Failure(r) == r.kind \in {"panic", "err", "abort"}

\* C7: for one inbound request at most one request goes to the identity
\* provider and at most one to the warehouse, and when either call fails
\* (it cannot be sent, or the status is no success) the request ends in
\* failure with that call as its last outbound one.
C7_SingleAttempt ==
    \A p \in Procs :
        /\ Count(sent[p], "idp") <= 1
        /\ Count(sent[p], "bigquery") <= 1
        /\ (~hist[p].idpResp.none /\ CallFailed(hist[p].idpResp.val)) =>
              /\ pc[p] = "done"
              /\ Failure(resp[p])
              /\ sent[p] = <<IdpRequest>>
        /\ (~hist[p].bqResp.none /\ CallFailed(hist[p].bqResp.val)) =>
              /\ pc[p] = "done"
              /\ Failure(resp[p])
              /\ sent[p][Len(sent[p])].to = "bigquery"

C7_Witness ==
    \E p \in Procs :
        /\ Len(sent[p]) = 2
        /\ ~hist[p].bqResp.none
        /\ hist[p].bqResp.val.sendOk
        /\ ~IsSuccess(hist[p].bqResp.val.status)
        /\ pc[p] = "done"

\* C8: handle_bq_query_req returns a JSON value only when the warehouse has
\* answered with a success status and a body that is JSON, and then that
\* value; a non-success status gives an error that carries the body, a body
\* that is not JSON gives an error that is no request error, and with either
\* error no value is returned and the response has no body.
C8_RunQueryResult ==
    \A p \in Procs :
        (~hist[p].bqResp.none /\ ~hist[p].bq.none) =>
            LET r   == hist[p].bqResp.val
                res == hist[p].bq.val
            IN  /\ res.ok <=> (r.sendOk /\ IsSuccess(r.status) /\ ~r.json.none)
                /\ res.ok => res.val = r.json.val
                /\ ~res.ok => DOMAIN res = {"ok", "err"} /\ resp[p].json = None
                                                        /\ Failure(resp[p])
                /\ (r.sendOk /\ ~IsSuccess(r.status)) =>
                      /\ ~res.ok
                      /\ res.err = <<"BQ Query Request Error: ",
                                     "BQ Query Request error: ">> \o r.text
                /\ (r.sendOk /\ IsSuccess(r.status) /\ r.json.none) =>
                      /\ ~res.ok
                      /\ Head(res.err) = "BQ response format is NOT valid JSON: "
                      /\ Head(res.err) /= "BQ Query Request Error: "

C8_Witness ==
    \E p \in Procs :
        /\ ~hist[p].bqResp.none /\ ~hist[p].bq.none
        /\ hist[p].bqResp.val.sendOk
        /\ IsSuccess(hist[p].bqResp.val.status)
        /\ hist[p].bqResp.val.json.none
        /\ ~hist[p].bq.val.ok

\* a bound of the request that was supplied and is no date
Unparsable(bound) == ~bound.none /\ ParseDate(bound.val).none

\* the handler has refused the request before building any query
Refused(p) ==
    /\ pc[p] = "done"
    /\ Failure(resp[p])
    /\ query[p] = EmptyStr
    /\ sent[p] = << >>

Selecting(p) == req[p].kind = "select" /\ req[p].qsOk /\ pc[p] /= "idle"

\* C9 (as claimed): on the select path, whichever bounds are supplied, a
\* supplied date that does not parse as %Y-%m-%d fails the request before any
\* query: no SELECT text is built and nothing is sent.
C9_UnparsableDateFailsEarly ==
    \A p \in Procs :
        (Selecting(p) /\ (Unparsable(req[p].from) \/ Unparsable(req[p].to))) => Refused(p)

\* 2024-01-07 was a Sunday
IsSunday(day) == (day - DayNumber(2024, 1, 7)) % 7 = 0

\* the most recent Sunday: today itself when today is a Sunday
MostRecentSunday(today) == CHOOSE d \in (today - 6)..today : IsSunday(d)

CurrentWeekOnward == <<"week >= DATE_TRUNC(CURRENT_DATE(), week)">>

\* C10: the decision table of the range filter. No bounds: current week
\* onward. Only from: week >= from. Only to (a date): refused exactly when to
\* is before the most recent Sunday, else current week onward and week <= to.
\* Both (dates): refused exactly when to is before from, else date >= from
\* and date <= to.
C10_RangeFilterTable ==
    \A p \in Procs :
        Selecting(p) =>
            LET from == req[p].from
                to   == req[p].to
            IN  /\ (from.none /\ to.none) =>
                      query[p] = SelectQuery(CurrentWeekOnward)
                /\ (~from.none /\ to.none) =>
                      query[p] = SelectQuery(<<"week >= '">> \o from.val \o <<"'">>)
                /\ (from.none /\ ~to.none /\ ~Unparsable(to)) =>
                      /\ Refused(p) <=>
                            ParseDate(to.val).val < MostRecentSunday(req[p].today)
                      /\ ~Refused(p) =>
                            query[p] = SelectQuery(CurrentWeekOnward
                                          \o <<" and week <= '">> \o to.val \o <<"'">>)
                /\ (~from.none /\ ~to.none /\ ~Unparsable(from) /\ ~Unparsable(to)) =>
                      /\ Refused(p) <=> ParseDate(to.val).val < ParseDate(from.val).val
                      /\ ~Refused(p) =>
                            query[p] = SelectQuery(<<"date >= '">> \o from.val
                                          \o <<"' and date <= '">> \o to.val \o <<"'">>)

\* only to is given, it is the most recent Sunday, today is a later day of
\* that week, and the query has gone out
C10_Witness ==
    \E p \in Procs :
        /\ Selecting(p)
        /\ req[p].from.none /\ ~req[p].to.none /\ ~Unparsable(req[p].to)
        /\ ParseDate(req[p].to.val).val = MostRecentSunday(req[p].today)
        /\ req[p].today > MostRecentSunday(req[p].today)
        /\ Count(sent[p], "bigquery") = 1


(***************************************************************************)
(* Properties of the decoder.                                              *)
(***************************************************************************)
\* p is a select request whose job was answered with a success and a JSON body
Answered(p) ==
    /\ req[p].kind = "select"
    /\ pc[p] = "done"
    /\ ~hist[p].bq.none
    /\ hist[p].bq.val.ok

\* the JSON value of that answer
Envelope(p) == hist[p].bq.val.val

\* the answer holds a schema and rows
HasTable(p) == Answered(p) /\ ~Envelope(p).fields.none /\ ~Envelope(p).rows.none

Schema(p) == Envelope(p).fields.val

Rows(p) == Envelope(p).rows.val

\* C11 (as claimed): when some row of the answer has fewer or more cells than
\* the schema has fields, the request does not end with a 200 and decoded
\* records: it ends with a decode error.
C11_CellCountMismatchFails ==
    \A p \in Procs :
        (/\ HasTable(p)
         /\ \E i \in 1..Len(Rows(p)) : Len(Rows(p)[i]) /= Len(Schema(p)))
        => resp[p].kind /= "ok"

\* the cell of row r for the field at position j is absent or no integer
NoInteger(r, j) == Cell(r, j).none \/ ParseI64(Cell(r, j).val).none

\* the field at position j is the one whose value the record holds for its name
Kept(fields, j) == \A k \in 1..Len(fields) : fields[k].name = fields[j].name => k <= j

\* C12 (as claimed): for a field declared INTEGER the record holds, under the
\* field's name, the cell's text parsed as an integer, and 0 when the cell is
\* absent or its text is no integer; neither case ends the request with an
\* error.
C12_IntegerCellOrZero ==
    \A p \in Procs :
        (HasTable(p) /\ Len(Schema(p)) > 0) =>
            /\ resp[p].kind = "ok"
            /\ \A i \in 1..Len(Rows(p)), j \in 1..Len(Schema(p)) :
                 (Schema(p)[j].type = <<"INTEGER">> /\ Kept(Schema(p), j)) =>
                    resp[p].json.val[i][Schema(p)[j].name] =
                        IF NoInteger(Rows(p)[i], j) THEN 0
                        ELSE ParseI64(Cell(Rows(p)[i], j).val).val

\* C13: an answer without schema.fields ends the request with status 501 and
\* the message that the schema is missing, with rows or without; an answer
\* with schema.fields and without rows ends it with 200 and the empty array.
C13_Envelope ==
    \A p \in Procs :
        Answered(p) =>
            /\ Envelope(p).fields.none =>
                  resp[p] = Panic501(<<"BQ response format doesn't include schema.fields, query: ">>
                                     \o query[p])
            /\ (~Envelope(p).fields.none /\ Envelope(p).rows.none) =>
                  resp[p] = Ok200(Some(<< >>))

C13_Witness ==
    \E p \in Procs :
        /\ Answered(p)
        /\ Envelope(p).fields.none
        /\ ~Envelope(p).rows.none
        /\ Len(Envelope(p).rows.val) > 0
        /\ resp[p].kind = "panic"

\* the request ended with 200 and the decoded records of a schema and rows
DecodedOk(p) == HasTable(p) /\ resp[p].kind = "ok"

Records(p) == resp[p].json.val

\* C14 (as claimed): when decoding succeeds the output holds one record per
\* row, the record at position i decoded from row i, and every record holds
\* one entry per schema field, also when two fields share a name; no rows
\* give the empty sequence.
C14_RecordPerRowEntryPerField ==
    \A p \in Procs :
        DecodedOk(p) =>
            /\ Len(Records(p)) = Len(Rows(p))
            /\ \A i \in 1..Len(Rows(p)) :
                 /\ Records(p)[i] = DecodeRow(Schema(p), Rows(p)[i]).val
                 /\ Cardinality(DOMAIN Records(p)[i]) = Len(Schema(p))

\* C16: of the fields that are not INTEGER only the one named update is
\* percent-decoded; the record holds the cell's text of every other one as it
\* is ("" for an absent cell), a %20 included.
C16_OnlyUpdateDecoded ==
    \A p \in Procs :
        DecodedOk(p) =>
            \A i \in 1..Len(Rows(p)), j \in 1..Len(Schema(p)) :
                (Schema(p)[j].type /= <<"INTEGER">> /\ Kept(Schema(p), j)) =>
                    Records(p)[i][Schema(p)[j].name] =
                        IF Schema(p)[j].name = <<"update">>
                        THEN UrlDecode(UnwrapOr(Cell(Rows(p)[i], j), EmptyStr)).val
                        ELSE UnwrapOr(Cell(Rows(p)[i], j), EmptyStr)

C16_Witness ==
    \E p \in Procs :
        /\ DecodedOk(p)
        /\ Schema(p) = <<TextField, UpdateField>>
        /\ Rows(p) = << <<Some(PercentText), Some(PercentText)>> >>
        /\ Records(p)[1][<<"term">>] = PercentText
        /\ Records(p)[1][<<"update">>] = <<"U+00E9", " ", "b">>


(***************************************************************************)
(* Properties of the handlers' outcome and of the token's use.             *)
(***************************************************************************)
\* the response r is a plain 200 with a JSON body
SuccessWithBody(r) == r.kind = "ok" /\ r.status = 200 /\ ~r.json.none

\* the response r is a failure with a message: the 501 of panic_with_status!,
\* or the handler's Err or panic, whose status its caller sets
FailureWithMessage(r) ==
    /\ Failure(r)
    /\ r.text /= EmptyStr
    /\ r.kind = "panic" => r.status \in 500..599

\* C15 (as claimed): every inbound request, insert or select, ends either with
\* a plain 200 and a JSON body or with a failure that carries a message; no
\* request ends with a 200 that has no JSON body.
C15_TwoOutcomes ==
    \A p \in Procs :
        pc[p] = "done" => SuccessWithBody(resp[p]) \/ FailureWithMessage(resp[p])

\* the positions in log of the requests sent to dest
Positions(log, dest) == {i \in 1..Len(log) : log[i].to = dest}

\* the token gcp_access_token_request came by: the one found in the cache or
\* the one in the identity provider's answer
TokenCameBy(h) ==
    IF h.tokenFrom = "cache" THEN h.found.val
    ELSE h.idpResp.val.json.val.access_token.val

\* C17: a job is posted to the warehouse only when gcp_access_token_request
\* has returned a token, after any request to the identity provider, and with
\* the header Authorization: Bearer <that token>, the cached or the exchanged
\* one; when gcp_access_token_request fails no job is posted.
C17_TokenBeforeJob ==
    \A p \in Procs :
        /\ \A i \in Positions(sent[p], "bigquery") :
              /\ hist[p].acq.end = "ok"
              /\ hist[p].acq.val = TokenCameBy(hist[p])
              /\ sent[p][i].auth = <<"Bearer ">> \o hist[p].acq.val
              /\ \A j \in Positions(sent[p], "idp") : j < i
        /\ hist[p].acq.end \in {"err", "panic"} => Positions(sent[p], "bigquery") = {}

C17_Witness ==
    \E p \in Procs :
        /\ hist[p].tokenFrom = "cache"
        /\ hist[p].acq.val = Tok(1)
        /\ Positions(sent[p], "bigquery") = {1}
        /\ pc[p] = "done"


(***************************************************************************)
(* Properties of the cache's content.                                      *)
(***************************************************************************)
\* the identity provider's answer r is a success holding both values
FullAnswer(r) ==
    /\ r.sendOk
    /\ r.status \in 200..299
    /\ ~r.json.none
    /\ ~r.json.val.access_token.none
    /\ ~r.json.val.expires_in.none

\* C18: the cache changes only by the insert of a request whose exchange was
\* answered with a success status, an access_token and an expires_in, and
\* the value stored is that access_token; a request whose exchange fails
\* (no signature, transport error, refusing status, a value missing) ends
\* with the cache as it was.
C18_CacheIntegrity ==
    [][/\ \A k \in Keys :
            cache'[k] /= cache[k] =>
                \E p \in Procs :
                    /\ pc[p] = "insert"
                    /\ ~hist[p].idpResp.none
                    /\ FullAnswer(hist[p].idpResp.val)
                    /\ ~cache'[k].none
                    /\ cache'[k].val.value = hist[p].idpResp.val.json.val.access_token.val
       /\ \A p \in Procs :
            (pc[p] \in {"exchange", "idp_wait"} /\ pc'[p] = "done") => cache' = cache]_vars

C18_Witness ==
    \E p \in Procs :
        /\ pc[p] = "done"
        /\ hist[p].idp = "sent"
        /\ IdpRefuses(hist[p].idpResp.val)
        /\ ~cache[Key].none
        /\ cache[Key].val.value = Tok(1)

\* C19 (as claimed): a call whose lookup hits the cache writes nothing to it:
\* the entry, its value and its remaining time to live, changes only by the
\* insert of a call whose lookup was no hit and whose exchange succeeded.
C19_HitsWriteNothing ==
    [][\A k \in Keys :
          cache'[k] /= cache[k] =>
              \E p \in Procs :
                  /\ pc[p] = "insert"
                  /\ hist[p].lookup /= "hit"
                  /\ hist[p].tokenFrom = "idp"]_vars

====
